---------------------------- MODULE Spec2Model ----------------------------
(***************************************************************************)
(* Model of Testnet/explorer/serve.py: the POATC dashboard's static file   *)
(* server.  main() parses an optional port argument, changes to the        *)
(* script's directory, binds a socketserver.TCPServer and runs             *)
(* serve_forever() until a KeyboardInterrupt.  CORSHTTPRequestHandler      *)
(* extends http.server.SimpleHTTPRequestHandler: it overrides end_headers  *)
(* (three CORS headers), adds do_OPTIONS and replaces log_message.  The    *)
(* inherited request processing of the base classes is modelled as the     *)
(* handler runs it, because the overridden methods are only reached        *)
(* through it.                                                             *)
(***************************************************************************)
EXTENDS Integers, Sequences, FiniteSets, TLC

VARIABLES
    argv,             \* sys.argv[1:], each argument a sequence of characters
    portFree,         \* environment: the requested address can be bound
    fs,               \* environment: the tree under the script's directory
    pc,               \* position of the main thread
    port,             \* main's local variable
    cwd,              \* the process working directory
    sock,             \* httpd.socket: "none", "listening" or "closed"
    server_address,   \* the (host, port) the socket is bound to ((""), 0: not bound)
    binds,            \* number of socket.bind calls made
    bindError,        \* the exception the bind raised ("": none)
    is_shut_down,     \* BaseServer.__is_shut_down (threading.Event)
    shutdown_request, \* BaseServer.__shutdown_request
    interrupted,      \* a KeyboardInterrupt has been raised in the main thread
    intAt,            \* the position at which it was raised
    out,              \* the lines main printed to standard output
    exitStatus,       \* the process exit status (-1 while it runs)
    request,          \* the request of the connection being (or last) handled
    handler,          \* the CORSHTTPRequestHandler of that connection
    errorServed       \* some earlier request ended in an error response

vars == <<argv, portFree, fs, pc, port, cwd, sock, server_address, binds,
          bindError, is_shut_down, shutdown_request, interrupted, intAt, out, exitStatus,
          request, handler, errorServed>>

(***************************************************************************)
(* int(sys.argv[1]): Python's int() on a string.  Surrounding whitespace   *)
(* is stripped, one sign is allowed, and the digits may be grouped by      *)
(* single underscores.  Anything else raises ValueError.                   *)
(***************************************************************************)
Digits == {"0", "1", "2", "3", "4", "5", "6", "7", "8", "9"}

DigitValue(c) ==
    CASE c = "0" -> 0 [] c = "1" -> 1 [] c = "2" -> 2 [] c = "3" -> 3
      [] c = "4" -> 4 [] c = "5" -> 5 [] c = "6" -> 6 [] c = "7" -> 7
      [] c = "8" -> 8 [] c = "9" -> 9

RECURSIVE lstrip(_)
lstrip(s) ==
    IF s # <<>> /\ Head(s) = " " THEN lstrip(Tail(s)) ELSE s

RECURSIVE rstrip(_)
rstrip(s) ==
    IF s # <<>> /\ s[Len(s)] = " " THEN rstrip(SubSeq(s, 1, Len(s) - 1)) ELSE s

strip(s) == rstrip(lstrip(s))

unsigned(s) ==
    IF s # <<>> /\ Head(s) \in {"+", "-"} THEN Tail(s) ELSE s

isDigits(t) ==
    /\ t # <<>>
    /\ t[1] \in Digits
    /\ t[Len(t)] \in Digits
    /\ \A i \in 1..Len(t) :
          \/ t[i] \in Digits
          \/ /\ t[i] = "_"
             /\ t[i - 1] \in Digits
             /\ t[i + 1] \in Digits

RECURSIVE digitsValue(_, _)
digitsValue(t, acc) ==
    IF t = <<>> THEN acc
    ELSE IF Head(t) = "_" THEN digitsValue(Tail(t), acc)
    ELSE digitsValue(Tail(t), 10 * acc + DigitValue(Head(t)))

\* int(s) raises ValueError exactly when this is FALSE.
int_parses(s) == isDigits(unsigned(strip(s)))

\* The value int(s) returns when it parses.
int_value(s) ==
    LET t == strip(s)
        v == digitsValue(unsigned(t), 0)
    IN  IF t # <<>> /\ Head(t) = "-" THEN 0 - v ELSE v

(***************************************************************************)
(* The command lines the model starts from.                                *)
(***************************************************************************)
PortArgs ==
    { <<"1">>, <<"8", "0", "8", "1">>, <<"6", "5", "5", "3", "5">>,
      <<" ", "+", "0", "9", "_", "0", " ">>,
      <<"0">>, <<"-", "1">>, <<"6", "5", "5", "3", "6">>, <<"7", "0", "0", "0", "0">>,
      <<>>, <<"a", "b", "c">>, <<"8", "0", ".", "5">>, <<"8", "_", "_", "0">>,
      <<"+", " ", "7">>, <<"0", "x", "1", "F">> }

ExtraArgs == { <<"9", "0", "9", "0">> }

CommandLines ==
    {<<>>} \cup { <<a>> : a \in PortArgs }
           \cup { <<a, b>> : a \in {<<"8", "0", "8", "1">>, <<"a", "b", "c">>}, b \in ExtraArgs }


(***************************************************************************)
(* The file trees a request can be resolved in.  A tree maps a normalised  *)
(* path (a sequence of names below its root) to a directory entry.         *)
(***************************************************************************)
File(data, mtime, readable) ==
    [kind |-> "file", data |-> data, mtime |-> mtime, readable |-> readable]

Dir(readable) ==
    [kind |-> "dir", data |-> <<>>, mtime |-> 0, readable |-> readable]

NoEntry == [kind |-> "none", data |-> <<>>, mtime |-> 0, readable |-> FALSE]

\* Trees the script's directory may hold.
ScriptTrees ==
    { (<<"index.html">> :> File(<<104, 105>>, 2, TRUE))
        @@ (<<"sub">> :> Dir(TRUE))
        @@ (<<"sub", "app.js">> :> File(<<7>>, 2, TRUE))
        @@ (<<"secret">> :> File(<<9, 9>>, 2, FALSE)),
      (<<"sub">> :> Dir(TRUE))
        @@ (<<"sub", "index.html">> :> File(<<1, 2, 3>>, 2, TRUE))
        @@ (<<"secret">> :> Dir(FALSE)) }

\* The tree of the directory the caller started the process in.
CallerTree ==
    (<<"index.html">> :> File(<<66>>, 2, TRUE))
      @@ (<<"missing.xyz">> :> File(<<67>>, 2, TRUE))

Tree(dir) == IF dir = "scriptdir" THEN fs ELSE CallerTree

Lookup(tree, segs) ==
    IF segs = <<>> THEN Dir(TRUE)
    ELSE IF segs \in DOMAIN tree THEN tree[segs]
    ELSE NoEntry

\* os.listdir: the names directly below segs.
Listing(tree, segs) ==
    { p \in DOMAIN tree : Len(p) = Len(segs) + 1 /\ SubSeq(p, 1, Len(segs)) = segs }

(***************************************************************************)
(* Requests.  A request line is split into words by parse_request; the     *)
(* model keeps the number of words, the first two words (command, path)    *)
(* and the last word (the version, when there are three words or more).    *)
(* A path is its components and whether it ends in "/".                    *)
(***************************************************************************)
Path(segs, slash) == [segs |-> segs, slash |-> slash]

RequestPaths ==
    { Path(<<"index.html">>, FALSE), Path(<<"index.html">>, TRUE),
      Path(<<"missing.xyz">>, FALSE), Path(<<"sub">>, FALSE), Path(<<"sub">>, TRUE),
      Path(<<>>, TRUE), Path(<<"sub", "..", "index.html">>, FALSE),
      Path(<<"secret">>, FALSE), Path(<<"secret">>, TRUE) }

Commands == {"GET", "HEAD", "OPTIONS", "POST"}

\* Version words and what parse_request makes of them: the (major, minor) pair
\* of "HTTP/<major>.<minor>", or a ValueError for any other word.
VersionNumbers ==
    ("HTTP/1.0" :> <<1, 0>>) @@ ("HTTP/1.1" :> <<1, 1>>)
      @@ ("HTTP/0.9" :> <<0, 9>>) @@ ("HTTP/2.0" :> <<2, 0>>)

VersionWords == DOMAIN VersionNumbers \cup {"FOO/1.0", "HTTP/1"}

\* Request headers: whether the header block parses, and the time of an
\* If-Modified-Since header (0: no such header).
Headers(ok, ims) == [ok |-> ok, ims |-> ims]

NoHeaders == Headers(TRUE, 0)

\* Times (of a file's last change, of an If-Modified-Since header) are 1..MaxTime.
MaxTime == 3

HeaderBlocks == { Headers(TRUE, t) : t \in 0..MaxTime } \cup { Headers(FALSE, 0) }

Req(n, c, p, v, long, hs) ==
    [nwords |-> n, command |-> c, path |-> p, version |-> v,
     tooLong |-> long, headers |-> hs]

NoRequest == Req(0, "", Path(<<>>, TRUE), "", FALSE, NoHeaders)

IndexPath == Path(<<"index.html">>, FALSE)

MissingPath == Path(<<"missing.xyz">>, FALSE)

Requests ==
    \* every command on every path, as HTTP/1.0 without headers
    { Req(3, c, p, "HTTP/1.0", FALSE, NoHeaders) : c \in Commands, p \in RequestPaths }
    \* conditional requests and requests whose headers do not parse
    \cup { Req(3, c, p, "HTTP/1.1", FALSE, hs) :
             c \in {"GET", "OPTIONS"},
             p \in { IndexPath, Path(<<"sub">>, TRUE) },
             hs \in HeaderBlocks }
    \* the other version words
    \cup { Req(3, c, p, v, FALSE, NoHeaders) :
             c \in Commands, p \in { IndexPath, MissingPath },
             v \in VersionWords \ {"HTTP/1.0"} }
    \* request lines of two words (HTTP/0.9), four words, one word, none
    \cup { Req(2, c, p, "", FALSE, NoHeaders) :
             c \in Commands, p \in { IndexPath, MissingPath, Path(<<"sub">>, FALSE) } }
    \cup { Req(4, c, IndexPath, v, FALSE, NoHeaders) :
             c \in {"GET", "OPTIONS"}, v \in {"HTTP/1.0", "FOO/1.0"} }
    \cup { Req(1, c, Path(<<>>, TRUE), "", FALSE, NoHeaders) : c \in {"GET", "OPTIONS"} }
    \* an empty line, and a line longer than 65536 bytes
    \cup { Req(0, "", Path(<<>>, TRUE), "", long, NoHeaders) : long \in BOOLEAN }

(***************************************************************************)
(* The request handler.  One handler object is built per accepted          *)
(* connection.  wfile is what it has written to the client: a status line  *)
(* (0: none), header lines and body bytes.  printed is what it has         *)
(* printed to standard output.                                             *)
(***************************************************************************)
NoBody == [kind |-> "none", data |-> <<>>]

EmptyWire == [status |-> 0, headers |-> <<>>, body |-> NoBody]

RequestLine(r) ==
    [nwords |-> r.nwords, command |-> r.command, path |-> r.path, version |-> r.version]

\* self.requestline = '' (nothing read, or the line was too long).
EmptyLine == RequestLine(NoRequest)

\* BaseHTTPRequestHandler.protocol_version, which the handler does not override.
protocol_version == "HTTP/1.0"

\* SimpleHTTPRequestHandler.__init__: directory = os.getcwd(), and nothing
\* carried over from an earlier handler.
NewHandler(dir) ==
    [directory |-> dir, command |-> "", path |-> Path(<<>>, TRUE),
     request_version |-> "", requestline |-> EmptyLine, close_connection |-> TRUE,
     ims |-> 0, bufStatus |-> 0, buffer |-> <<>>, wfile |-> EmptyWire,
     printed |-> <<>>, code |-> 0, finished |-> FALSE]

\* A variant of log_message: the inherited one, which writes the client
\* address, the timestamp and the message to standard error.
log_message_inherited(h, message) ==
    [h EXCEPT !.printed =
        Append(@, [stream |-> "stderr", timestamp |-> TRUE, client |-> TRUE,
                   message |-> message])]

\* CORSHTTPRequestHandler.log_message: print(f"[{date}] {format % args}").
\* The line goes to standard output and carries the timestamp and the
\* formatted message; the client address of the inherited format is dropped.
log_message(h, message) ==
    [h EXCEPT !.printed =
        Append(@, [stream |-> "stdout", timestamp |-> TRUE, client |-> FALSE,
                   message |-> message])]

\* log_request(code): format '"%s" %s %s' % (requestline, code, size), size '-'.
log_request(h, code) ==
    log_message(h, [kind |-> "request", requestline |-> h.requestline,
                    code |-> code, size |-> "-"])

\* log_error("code %d, message %s", code, message).
log_error(h, code) ==
    log_message(h, [kind |-> "error", requestline |-> EmptyLine,
                    code |-> code, size |-> ""])

\* send_response_only: the status line is buffered unless the request is HTTP/0.9.
send_response_only(h, code) ==
    IF h.request_version # "HTTP/0.9" THEN [h EXCEPT !.bufStatus = code] ELSE h

\* send_header: the header is buffered unless the request is HTTP/0.9; a
\* "Connection: close" header also marks the connection to be closed.
send_header(h, keyword, value) ==
    LET h1 == IF h.request_version # "HTTP/0.9"
              THEN [h EXCEPT !.buffer = Append(@, <<keyword, value>>)]
              ELSE h
    IN  IF keyword = "Connection" /\ value = "close"
        THEN [h1 EXCEPT !.close_connection = TRUE]
        ELSE h1

\* send_response: log the request, buffer the status line, Server and Date.
send_response(h, code) ==
    LET h1 == log_request(h, code)
        h2 == send_response_only([h1 EXCEPT !.code = code], code)
        h3 == send_header(h2, "Server", "SimpleHTTP/0.6")
    IN  send_header(h3, "Date", "now")

\* flush_headers: the buffered status line and headers are written to the client.
flush_headers(h) ==
    [h EXCEPT !.wfile.status = IF h.bufStatus # 0 THEN h.bufStatus ELSE @,
              !.wfile.headers = @ \o h.buffer,
              !.bufStatus = 0,
              !.buffer = <<>>]

\* BaseHTTPRequestHandler.end_headers.
base_end_headers(h) ==
    IF h.request_version # "HTTP/0.9" THEN flush_headers(h) ELSE h

\* CORSHTTPRequestHandler.end_headers.
end_headers(h) ==
    LET h1 == send_header(h, "Access-Control-Allow-Origin", "*")
        h2 == send_header(h1, "Access-Control-Allow-Methods", "GET, POST, OPTIONS")
        h3 == send_header(h2, "Access-Control-Allow-Headers", "Content-Type")
    IN  base_end_headers(h3)

\* A variant of do_OPTIONS that answers for the file at the path, as HEAD does.
do_OPTIONS_of_file(h) ==
    IF Lookup(Tree(h.directory), h.path.segs).kind = "none"
    THEN [end_headers(send_response(h, 404)) EXCEPT !.wfile.body = [kind |-> "error", data |-> <<404>>]]
    ELSE end_headers(send_response(h, 200))

\* CORSHTTPRequestHandler.do_OPTIONS.
do_OPTIONS(h) == end_headers(send_response(h, 200))

write_body(h, kind, data) ==
    [h EXCEPT !.wfile.body = [kind |-> kind, data |-> data]]

\* A variant of send_error that ends the headers with the inherited
\* end_headers, as if only the success path were wrapped.
send_error_unwrapped(h, code) ==
    LET h1 == send_response(log_error(h, code), code)
        h2 == send_header(h1, "Connection", "close")
        h3 == send_header(send_header(h2, "Content-Type", "text/html;charset=utf-8"),
                          "Content-Length", "error page")
        h4 == base_end_headers(h3)
    IN  IF h.command # "HEAD" THEN write_body(h4, "error", <<code>>) ELSE h4

\* send_error: an error line is logged, then the error response is sent; it
\* has a body unless the code is below 200 or is 204, 205 or 304, and the
\* body is not written in answer to HEAD.
send_error(h, code) ==
    LET h1 == send_response(log_error(h, code), code)
        h2 == send_header(h1, "Connection", "close")
        hasBody == code >= 200 /\ code \notin {204, 205, 304}
        h3 == IF hasBody
              THEN send_header(send_header(h2, "Content-Type", "text/html;charset=utf-8"),
                               "Content-Length", "error page")
              ELSE h2
        h4 == end_headers(h3)
    IN  IF h.command # "HEAD" /\ hasBody THEN write_body(h4, "error", <<code>>) ELSE h4


\* parse_request.  The result is the handler and whether the request is to be
\* dispatched (ok); when it is not, any error response has been sent.
default_request_version == "HTTP/0.9"

parse_request(h, r) ==
    LET h0 == [h EXCEPT !.command = "",
                        !.request_version = default_request_version,
                        !.close_connection = TRUE,
                        !.requestline = RequestLine(r)]
        versionOk == r.version \in DOMAIN VersionNumbers
        number == VersionNumbers[r.version]
        \* after the version word has been accepted
        h1 == IF r.nwords >= 3
              THEN [h0 EXCEPT !.request_version = r.version,
                              !.close_connection =
                                  ~ (/\ (number[1] > 1 \/ (number[1] = 1 /\ number[2] >= 1))
                                     /\ protocol_version = "HTTP/1.1")]
              ELSE h0
        h2 == [h1 EXCEPT !.command = r.command, !.path = r.path]
    IN  IF r.nwords = 0 THEN [ok |-> FALSE, h |-> h0]
        ELSE IF r.nwords >= 3 /\ ~ versionOk
        THEN [ok |-> FALSE, h |-> send_error(h0, 400)]
        ELSE IF r.nwords >= 3 /\ number[1] >= 2
        THEN [ok |-> FALSE, h |-> send_error(h0, 505)]
        ELSE IF r.nwords \notin {2, 3}
        THEN [ok |-> FALSE, h |-> send_error(h1, 400)]
        ELSE IF r.nwords = 2 /\ r.command # "GET"
        THEN [ok |-> FALSE, h |-> send_error(h1, 400)]
        ELSE IF ~ r.headers.ok
        THEN [ok |-> FALSE, h |-> send_error(h2, 431)]
        ELSE [ok |-> TRUE, h |-> [h2 EXCEPT !.ims = r.headers.ims]]

\* posixpath.normpath on the components of an absolute path: "." and empty
\* components are dropped, ".." removes the component before it (none at the root).
RECURSIVE normpath(_, _)
normpath(segs, acc) ==
    IF segs = <<>> THEN acc
    ELSE IF Head(segs) \in {"", "."} THEN normpath(Tail(segs), acc)
    ELSE IF Head(segs) = ".."
    THEN normpath(Tail(segs), IF acc = <<>> THEN acc ELSE SubSeq(acc, 1, Len(acc) - 1))
    ELSE normpath(Tail(segs), Append(acc, Head(segs)))

\* translate_path: the request path below self.directory, its trailing slash kept.
translate_path(h) ==
    [dir |-> h.directory,
     segs |-> SelectSeq(normpath(h.path.segs, <<>>), LAMBDA w : w \notin {".", ".."}),
     slash |-> h.path.slash]

\* list_directory: 404 when the directory cannot be read, else the listing;
\* the result tells do_GET whether there is a file object to copy.
list_directory(h, t) ==
    IF ~ Lookup(Tree(t.dir), t.segs).readable
    THEN [h |-> send_error(h, 404), f |-> NoBody]
    ELSE LET names == Listing(Tree(t.dir), t.segs)
             h1 == send_response(h, 200)
             h2 == send_header(h1, "Content-type", "text/html; charset=utf-8")
             h3 == send_header(h2, "Content-Length", "listing")
         IN  [h |-> end_headers(h3),
              f |-> [kind |-> "listing", data |-> <<Cardinality(names)>>]]

\* send_head, from a path that is not a directory (or is the index file of one).
send_file_head(h, t) ==
    LET entry == Lookup(Tree(t.dir), t.segs)
    IN  IF t.slash THEN [h |-> send_error(h, 404), f |-> NoBody]
        ELSE IF entry.kind # "file" \/ ~ entry.readable
        THEN [h |-> send_error(h, 404), f |-> NoBody]
        ELSE IF h.ims # 0 /\ entry.mtime <= h.ims
        THEN [h |-> end_headers(send_response(h, 304)), f |-> NoBody]
        ELSE LET h1 == send_response(h, 200)
                 h2 == send_header(h1, "Content-type", "guessed")
                 h3 == send_header(h2, "Content-Length", ToString(Len(entry.data)))
                 h4 == send_header(h3, "Last-Modified", ToString(entry.mtime))
             IN  [h |-> end_headers(h4), f |-> [kind |-> "file", data |-> entry.data]]

\* send_head.
send_head(h) ==
    LET t == translate_path(h)
        tree == Tree(t.dir)
        isdir == Lookup(tree, t.segs).kind = "dir"
        index(name) == [t EXCEPT !.segs = Append(@, name), !.slash = FALSE]
        isfile(name) == Lookup(tree, Append(t.segs, name)).kind = "file"
    IN  IF isdir /\ ~ h.path.slash
        THEN LET h1 == send_response(h, 301)
                 h2 == send_header(h1, "Location", "path/")
                 h3 == send_header(h2, "Content-Length", "0")
             IN  [h |-> end_headers(h3), f |-> NoBody]
        ELSE IF isdir /\ isfile("index.html") THEN send_file_head(h, index("index.html"))
        ELSE IF isdir /\ isfile("index.htm") THEN send_file_head(h, index("index.htm"))
        ELSE IF isdir THEN list_directory(h, t)
        ELSE send_file_head(h, t)

\* do_GET: send_head, then copy the file object to the client.
do_GET(h) ==
    LET res == send_head(h)
    IN  IF res.f.kind # "none" THEN write_body(res.h, res.f.kind, res.f.data) ELSE res.h

\* do_HEAD: send_head, and the file object is closed unread.
do_HEAD(h) == send_head(h).h

\* The do_<command> methods the handler class has.
Methods == {"GET", "HEAD", "OPTIONS"}

\* handle_one_request.
handle_one_request(h, r) ==
    IF r.tooLong
    THEN send_error([h EXCEPT !.requestline = EmptyLine, !.request_version = "",
                              !.command = ""], 414)
    ELSE LET p == parse_request(h, r)
         IN  IF ~ p.ok THEN p.h
             ELSE IF p.h.command \notin Methods THEN send_error(p.h, 501)
             ELSE IF p.h.command = "GET" THEN do_GET(p.h)
             ELSE IF p.h.command = "HEAD" THEN do_HEAD(p.h)
             ELSE do_OPTIONS(p.h)


\* handle() and finish(): one request is handled, since close_connection stays
\* TRUE under protocol_version HTTP/1.0; then the output is flushed and closed.
handle(h, r) == [handle_one_request(h, r) EXCEPT !.finished = TRUE]

(***************************************************************************)
(* main().                                                                 *)
(***************************************************************************)
DefaultPort == 8080

WarningLine == "Invalid port number. Using default port 8080."
BannerLine == "POATC Dashboard Server starting..."
StoppedLine == "Server stopped by user"

\* Variants of main_port: one whose fallback is not the default port, one that
\* reads the last argument instead of the first, and one that also falls
\* back when the integer is not a port number.
main_port_other_default(args) ==
    IF Len(args) > 0
    THEN IF int_parses(args[1])
         THEN [port |-> int_value(args[1]), warning |-> FALSE]
         ELSE [port |-> 80, warning |-> TRUE]
    ELSE [port |-> DefaultPort, warning |-> FALSE]

main_port_last_argument(args) ==
    IF Len(args) > 0
    THEN IF int_parses(args[Len(args)])
         THEN [port |-> int_value(args[Len(args)]), warning |-> FALSE]
         ELSE [port |-> DefaultPort, warning |-> TRUE]
    ELSE [port |-> DefaultPort, warning |-> FALSE]

main_port_range_checked(args) ==
    IF Len(args) > 0
    THEN IF int_parses(args[1]) /\ int_value(args[1]) \in 1..65535
         THEN [port |-> int_value(args[1]), warning |-> FALSE]
         ELSE [port |-> DefaultPort, warning |-> TRUE]
    ELSE [port |-> DefaultPort, warning |-> FALSE]

\* Lines 30-35: the port main uses for a command line, and whether it warns.
main_port(args) ==
    IF Len(args) > 0
    THEN IF int_parses(args[1])
         THEN [port |-> int_value(args[1]), warning |-> FALSE]
         ELSE [port |-> DefaultPort, warning |-> TRUE]
    ELSE [port |-> DefaultPort, warning |-> FALSE]

\* A variant of script_directory: the working directory is left as it is.
script_directory_unchanged(dir) == dir

\* Line 38: os.path.dirname(os.path.abspath(__file__)), whatever the directory
\* the process was started in.
script_directory(dir) == "scriptdir"

\* socket.bind(("", port)): the exception it raises ("": none).  A port outside
\* 0..65535 is an OverflowError; an address that is in use or not permitted is
\* an OSError.
bind_error(p, free) ==
    IF p \notin 0..65535 THEN "OverflowError"
    ELSE IF ~ free THEN "OSError"
    ELSE ""

\* The ports the host may assign to a bind to port 0.
EphemeralPorts == {32768, 60999}

ParseArgs ==
    /\ pc = "parse"
    /\ port' = main_port(argv).port
    /\ out' = IF main_port(argv).warning THEN Append(out, WarningLine) ELSE out
    /\ pc' = "chdir"
    /\ UNCHANGED <<argv, portFree, fs, cwd, sock, server_address, binds,
                   bindError, is_shut_down, shutdown_request, interrupted, intAt,
                   exitStatus, request, handler, errorServed>>

Chdir ==
    /\ pc = "chdir"
    /\ cwd' = script_directory(cwd)
    /\ pc' = "bind"
    /\ UNCHANGED <<argv, portFree, fs, port, sock, server_address, binds,
                   bindError, is_shut_down, shutdown_request, interrupted, intAt, out,
                   exitStatus, request, handler, errorServed>>

\* A variant of BindFails that tries again on the default port.
BindFails_retry ==
    /\ bindError' = bind_error(port, portFree)
    /\ port' = DefaultPort
    /\ pc' = "bind"
    /\ UNCHANGED <<sock, server_address, exitStatus>>

\* TCPServer.__init__ when server_bind raises: server_close(), and the
\* exception leaves main uncaught; the interpreter exits with status 1.
BindFails ==
    /\ bindError' = bind_error(port, portFree)
    /\ sock' = "closed"
    /\ pc' = "exited"
    /\ exitStatus' = 1
    /\ UNCHANGED <<port, server_address>>

\* TCPServer.__init__ when it succeeds: the socket is bound to ("", port), or
\* to a port the host picks when port is 0, and listens.
BindSucceeds ==
    /\ \E p \in (IF port = 0 THEN EphemeralPorts ELSE {port}) :
          server_address' = <<"", p>>
    /\ sock' = "listening"
    /\ pc' = "banner"
    /\ UNCHANGED <<port, bindError, exitStatus>>

\* Line 40: with socketserver.TCPServer(("", port), CORSHTTPRequestHandler).
Bind ==
    /\ pc = "bind"
    /\ binds' = binds + 1
    /\ IF bind_error(port, portFree) # "" THEN BindFails ELSE BindSucceeds
    /\ UNCHANGED <<argv, portFree, fs, cwd, is_shut_down, shutdown_request,
                   interrupted, intAt, out, request, handler, errorServed>>

\* Lines 41-47: the startup banner.
Banner ==
    /\ pc = "banner"
    /\ out' = Append(out, BannerLine)
    /\ pc' = "serve_call"
    /\ UNCHANGED <<argv, portFree, fs, port, cwd, sock, server_address, binds,
                   bindError, is_shut_down, shutdown_request, interrupted, intAt,
                   exitStatus, request, handler, errorServed>>


(***************************************************************************)
(* httpd.serve_forever() and the handling of one connection.               *)
(***************************************************************************)
\* serve_forever up to its try block: __is_shut_down.clear(), then the loop.
ServeForeverEnter ==
    /\ pc = "serve_call"
    /\ is_shut_down' = FALSE
    /\ pc' = "loop"
    /\ UNCHANGED <<argv, portFree, fs, port, cwd, sock, server_address, binds,
                   bindError, shutdown_request, interrupted, intAt, out, exitStatus,
                   request, handler, errorServed>>

\* A variant of finish_request that keeps the handler of the connection before.
finish_request_reused(old, dir) == [old EXCEPT !.directory = dir]

\* finish_request: RequestHandlerClass(request, client_address, self) builds a
\* new handler for the connection; the one of the connection before is dropped.
finish_request(old, dir) == NewHandler(dir)

\* The loop finds the socket readable: _handle_request_noblock accepts the
\* connection, and the client's request arrives.
Accept(r) ==
    /\ pc = "loop"
    /\ ~ shutdown_request
    /\ request' = r
    /\ handler' = finish_request(handler, cwd)
    /\ pc' = "handling"
    /\ UNCHANGED <<argv, portFree, fs, port, cwd, sock, server_address, binds,
                   bindError, is_shut_down, shutdown_request, interrupted, intAt, out,
                   exitStatus, errorServed>>

\* The handler's constructor runs handle(): one request, since the connection
\* is closed after it; then shutdown_request(request) and back to the loop.
Handle ==
    /\ pc = "handling"
    /\ handler' = handle(handler, request)
    /\ errorServed' = (errorServed \/ handler'.code >= 400)
    /\ pc' = "loop"
    /\ UNCHANGED <<argv, portFree, fs, port, cwd, sock, server_address, binds,
                   bindError, is_shut_down, shutdown_request, interrupted, intAt, out,
                   exitStatus, request>>

\* The connection breaks before the request is read: the handler raises an
\* OSError, which process_request's caller reports with handle_error; the
\* connection is shut down and the loop goes on.
ClientAbort ==
    /\ pc = "handling"
    /\ request' = NoRequest
    /\ pc' = "loop"
    /\ UNCHANGED <<argv, portFree, fs, port, cwd, sock, server_address, binds,
                   bindError, is_shut_down, shutdown_request, interrupted, intAt, out,
                   exitStatus, handler, errorServed>>

\* A variant of ServeForeverExit that leaves the event unset.
ServeForeverExit_unset ==
    /\ pc = "finally"
    /\ shutdown_request' = FALSE
    /\ pc' = "except"
    /\ UNCHANGED <<argv, portFree, fs, port, cwd, sock, server_address, binds,
                   bindError, is_shut_down, interrupted, intAt, out, exitStatus,
                   request, handler, errorServed>>

\* serve_forever's finally clause: __shutdown_request = False and
\* __is_shut_down.set(); the KeyboardInterrupt then reaches main's except.
ServeForeverExit ==
    /\ pc = "finally"
    /\ shutdown_request' = FALSE
    /\ is_shut_down' = TRUE
    /\ pc' = "except"
    /\ UNCHANGED <<argv, portFree, fs, port, cwd, sock, server_address, binds,
                   bindError, interrupted, intAt, out, exitStatus, request, handler,
                   errorServed>>

\* Line 52.
ExceptPrint ==
    /\ pc = "except"
    /\ out' = Append(out, StoppedLine)
    /\ pc' = "shutdown"
    /\ UNCHANGED <<argv, portFree, fs, port, cwd, sock, server_address, binds,
                   bindError, is_shut_down, shutdown_request, interrupted, intAt,
                   exitStatus, request, handler, errorServed>>

\* Line 53, httpd.shutdown(): __shutdown_request = True ...
ShutdownCall ==
    /\ pc = "shutdown"
    /\ shutdown_request' = TRUE
    /\ pc' = "shutdown_wait"
    /\ UNCHANGED <<argv, portFree, fs, port, cwd, sock, server_address, binds,
                   bindError, is_shut_down, interrupted, intAt, out, exitStatus,
                   request, handler, errorServed>>

\* ... then __is_shut_down.wait(), which returns only once the event is set.
ShutdownReturn ==
    /\ pc = "shutdown_wait"
    /\ is_shut_down
    /\ pc' = "close"
    /\ UNCHANGED <<argv, portFree, fs, port, cwd, sock, server_address, binds,
                   bindError, is_shut_down, shutdown_request, interrupted, intAt, out,
                   exitStatus, request, handler, errorServed>>

\* The with block's __exit__: server_close() closes the socket; main returns
\* and the interpreter exits with status 0.
ServerClose ==
    /\ pc = "close"
    /\ sock' = "closed"
    /\ exitStatus' = 0
    /\ pc' = "exited"
    /\ UNCHANGED <<argv, portFree, fs, port, cwd, server_address, binds,
                   bindError, is_shut_down, shutdown_request, interrupted, intAt, out,
                   request, handler, errorServed>>

(***************************************************************************)
(* The operator's interrupt: a KeyboardInterrupt raised in the main thread *)
(* at its current position.  One interrupt is delivered per run.           *)
(***************************************************************************)
\* Where the exception takes the main thread.  Before the with block nothing
\* catches it; in the with block, outside the try, __exit__ closes the socket
\* and it leaves main; inside the try but before serve_forever's own try
\* block, main's except clause catches it; inside serve_forever the finally
\* clause runs first (during a request, after shutdown_request(request)).
interrupt_target(at) ==
    IF at \in {"parse", "chdir", "bind", "banner"} THEN "exited"
    ELSE IF at = "serve_call" THEN "except"
    ELSE "finally"

Interrupt ==
    /\ ~ interrupted
    /\ pc \in {"parse", "chdir", "bind", "banner", "serve_call", "loop", "handling"}
    /\ interrupted' = TRUE
    /\ intAt' = pc
    /\ pc' = interrupt_target(pc)
    /\ sock' = IF pc = "banner" THEN "closed" ELSE sock
    /\ exitStatus' = IF interrupt_target(pc) = "exited" THEN 130 ELSE exitStatus
    /\ UNCHANGED <<argv, portFree, fs, port, cwd, server_address, binds,
                   bindError, is_shut_down, shutdown_request, out, request, handler,
                   errorServed>>

(***************************************************************************)
(* The specification.                                                      *)
(***************************************************************************)
Init ==
    /\ argv \in CommandLines
    /\ portFree \in BOOLEAN
    /\ fs \in ScriptTrees
    /\ pc = "parse"
    /\ port = DefaultPort
    /\ cwd \in {"callerdir", "scriptdir"}
    /\ sock = "none"
    /\ server_address = <<"", 0>>
    /\ binds = 0
    /\ bindError = ""
    /\ is_shut_down = FALSE
    /\ shutdown_request = FALSE
    /\ interrupted = FALSE
    /\ intAt = ""
    /\ out = <<>>
    /\ exitStatus = -1
    /\ request = NoRequest
    /\ handler = NewHandler("")
    /\ errorServed = FALSE

\* The steps main takes once the KeyboardInterrupt has left the accept loop.
Stopping ==
    \/ ServeForeverExit
    \/ ExceptPrint
    \/ ShutdownCall
    \/ ShutdownReturn
    \/ ServerClose

Next ==
    \/ ParseArgs
    \/ Chdir
    \/ Bind
    \/ Banner
    \/ ServeForeverEnter
    \/ \E r \in Requests : Accept(r)
    \/ Handle
    \/ ClientAbort
    \/ ServeForeverExit
    \/ ExceptPrint
    \/ ShutdownCall
    \/ ShutdownReturn
    \/ ServerClose
    \/ Interrupt

Spec == Init /\ [][Next]_vars

\* The interpreter keeps running the main thread: once the exception is on
\* its way out, a step that can be taken is eventually taken.  Clients and the
\* operator are not obliged to do anything.
FairSpec == Spec /\ WF_vars(Stopping)


(***************************************************************************)
(* Vocabulary of the properties.                                           *)
(***************************************************************************)
Range(seq) == { seq[i] : i \in 1..Len(seq) }

\* The three headers the interface promises, with their exact values.
CORSHeaders ==
    << <<"Access-Control-Allow-Origin", "*">>,
       <<"Access-Control-Allow-Methods", "GET, POST, OPTIONS">>,
       <<"Access-Control-Allow-Headers", "Content-Type">> >>

\* The request line and the header block are those of an HTTP/1.x request.
WellFormed(r) ==
    /\ r.nwords = 3
    /\ r.version \in {"HTTP/1.0", "HTTP/1.1"}
    /\ ~ r.tooLong
    /\ r.headers.ok

\* The handler has finished with the current request ...
Handled == handler.finished

\* ... and has written something to the client.
Responded == Handled /\ handler.wfile # EmptyWire

\* Each of the three CORS headers is in the response exactly once, with its value.
HasCORS(w) ==
    \A i \in 1..Len(CORSHeaders) :
        Cardinality({ j \in 1..Len(w.headers) : w.headers[j] = CORSHeaders[i] }) = 1
        /\ Cardinality({ j \in 1..Len(w.headers) : w.headers[j][1] = CORSHeaders[i][1] }) = 1

\* What the request path resolves to under the serving root.
Resolved(r) ==
    LET entry == Lookup(fs, normpath(r.path.segs, <<>>))
    IN  IF r.path.slash /\ entry.kind = "file" THEN NoEntry ELSE entry

HasArg == Len(argv) > 0

NonIntegerArg == HasArg /\ ~ int_parses(argv[1])

IntegerArg == HasArg /\ int_parses(argv[1])

\* main has executed lines 31-35.
Parsed == pc # "parse" /\ intAt # "parse"

Warned == WarningLine \in Range(out)

(***************************************************************************)
(* C1.  CORS headers on every response.                                    *)
(***************************************************************************)
\* C1 as stated: every response the server sends, whatever the method and
\* the outcome, carries the three CORS headers with their exact values.
C1_EveryResponseHasCORS ==
    Responded => HasCORS(handler.wfile)

\* C1 as amended: every response that has a header section carries the three
\* CORS headers exactly once each, and a response has a header section
\* unless the request version in force when it is sent is HTTP/0.9 (a request
\* line without a version, with the version HTTP/0.9, or rejected before its
\* version is accepted), in which case it has no status line and no header.
C1_ResponsesWithHeadersHaveCORS ==
    Responded =>
        IF handler.request_version # "HTTP/0.9"
        THEN handler.wfile.status # 0 /\ HasCORS(handler.wfile)
        ELSE handler.wfile.status = 0 /\ handler.wfile.headers = <<>>

C1_Witness ==
    /\ Responded
    /\ request.command = "POST"
    /\ handler.wfile.status = 501
    /\ HasCORS(handler.wfile)

(***************************************************************************)
(* C2.  OPTIONS.                                                           *)
(***************************************************************************)
\* C2: an OPTIONS request (a well-formed HTTP/1.x one) to any path gets
\* status 200, the general and the CORS headers and no body, whatever is or
\* is not at that path under the serving root.
C2_OptionsIs200Empty ==
    (Handled /\ WellFormed(request) /\ request.command = "OPTIONS") =>
        /\ handler.code = 200
        /\ handler.wfile =
              [status |-> 200,
               headers |-> << <<"Server", "SimpleHTTP/0.6">>, <<"Date", "now">> >>
                              \o CORSHeaders,
               body |-> NoBody]

C2_Witness ==
    /\ Handled
    /\ WellFormed(request)
    /\ request.command = "OPTIONS"
    /\ Resolved(request).kind = "none"
    /\ handler.wfile.status = 200
    /\ handler.wfile.body = NoBody

(***************************************************************************)
(* C3.  A port argument that is not an integer.                            *)
(***************************************************************************)
\* C3: with a first argument that int() rejects, main warns, keeps port 8080
\* and goes on: the process ends only by a failed bind or an interrupt, and a
\* bind of a free address listens on 8080.  Without arguments the port is
\* 8080 and there is no warning.
C3_NonIntegerFallsBack ==
    /\ (NonIntegerArg /\ Parsed) =>
          /\ port = 8080
          /\ Warned
          /\ pc = "exited" => (interrupted \/ bindError # "")
          /\ (binds = 1 /\ portFree) =>
                (bindError = "" /\ server_address = <<"", 8080>> /\ sock # "none")
    /\ (~ HasArg /\ Parsed) =>
          /\ port = 8080
          /\ ~ Warned
          /\ (binds = 1 /\ portFree) => server_address = <<"", 8080>>

C3_Witness ==
    /\ NonIntegerArg
    /\ Warned
    /\ sock = "listening"
    /\ server_address = <<"", 8080>>
    /\ Responded

(***************************************************************************)
(* C4.  A valid port argument.                                             *)
(***************************************************************************)
ValidPortArg == IntegerArg /\ int_value(argv[1]) \in 1..65535

\* C4: with a first argument that is an integer in 1..65535, main binds that
\* port on all interfaces (host "") when the address is free, whatever other
\* arguments follow; the socket never listens on another port.
C4_ListensOnArgument ==
    ValidPortArg =>
        /\ Parsed => (port = int_value(argv[1]) /\ ~ Warned)
        /\ (binds = 1 /\ portFree) =>
              (bindError = "" /\ sock # "none"
               /\ server_address = <<"", int_value(argv[1])>>)
        /\ sock = "listening" => server_address = <<"", int_value(argv[1])>>
        /\ argv[1] = <<"8", "0", "8", "1">> /\ Parsed => port = 8081
        /\ argv[1] = <<"6", "5", "5", "3", "5">> /\ Parsed => port = 65535
        /\ argv[1] = <<" ", "+", "0", "9", "_", "0", " ">> /\ Parsed => port = 90

C4_Witness ==
    /\ Len(argv) = 2
    /\ ValidPortArg
    /\ sock = "listening"
    /\ server_address = <<"", 8081>>

(***************************************************************************)
(* C5.  Interrupt.                                                         *)
(***************************************************************************)
\* C5: an interrupt that arrives while the server is in the accept loop, idle
\* or handling a request, leads to the process having exited with status 0,
\* the shutdown notice printed and the socket closed; so httpd.shutdown()
\* returned.
C5_InterruptExitsCleanly ==
    (interrupted /\ intAt \in {"loop", "handling"})
        ~> (/\ pc = "exited"
            /\ exitStatus = 0
            /\ sock = "closed"
            /\ StoppedLine \in Range(out))

C5_Witness ==
    /\ intAt = "handling"
    /\ pc = "exited"
    /\ exitStatus = 0
    /\ sock = "closed"
    /\ is_shut_down

(***************************************************************************)
(* C6.  GET of a file, GET of nothing.                                     *)
(***************************************************************************)
IsGet == Handled /\ WellFormed(request) /\ request.command = "GET"

FileBody(entry) == [kind |-> "file", data |-> entry.data]

\* C6 as stated: a GET whose path resolves to a regular file under the
\* serving root gets 200 and the file's bytes; one whose path resolves to
\* nothing gets 404.
C6_GetFileIs200 ==
    IsGet =>
        /\ Resolved(request).kind = "file" =>
              (handler.wfile.status = 200
               /\ handler.wfile.body = FileBody(Resolved(request)))
        /\ Resolved(request).kind = "none" => handler.wfile.status = 404

\* C6 as amended: a GET whose path resolves to a regular file under the
\* serving root that can be opened gets 200 and the file's bytes, unless it
\* carries an If-Modified-Since time that is not before the file's last
\* change: then it gets 304 and no body.  A file that cannot be opened gets
\* 404, as does a path that resolves to nothing.
C6_GetReadableFileIs200 ==
    IsGet =>
        LET entry == Resolved(request)
            cached == request.headers.ims # 0 /\ entry.mtime <= request.headers.ims
        IN  /\ (entry.kind = "file" /\ entry.readable /\ ~ cached) =>
                  (handler.wfile.status = 200 /\ handler.wfile.body = FileBody(entry))
            /\ (entry.kind = "file" /\ entry.readable /\ cached) =>
                  (handler.wfile.status = 304 /\ handler.wfile.body = NoBody)
            /\ (entry.kind = "file" /\ ~ entry.readable) => handler.wfile.status = 404
            /\ entry.kind = "none" => handler.wfile.status = 404

C6_Witness ==
    /\ IsGet
    /\ request.path = Path(<<"sub", "..", "index.html">>, FALSE)
    /\ handler.wfile.status = 200
    /\ handler.wfile.body = [kind |-> "file", data |-> <<104, 105>>]


(***************************************************************************)
(* C7.  The log.                                                           *)
(***************************************************************************)
RequestLogged(line) ==
    line.message = [kind |-> "request", requestline |-> handler.requestline,
                    code |-> handler.code, size |-> "-"]

\* C7 as stated: every request, answered with success or with an error,
\* leaves exactly one line on standard output, with a timestamp, the client
\* address, the request line, the status and the size.
C7_OneLineWithClient ==
    (Handled /\ (request.nwords > 0 \/ request.tooLong)) =>
        /\ Len(handler.printed) = 1
        /\ handler.printed[1].stream = "stdout"
        /\ handler.printed[1].timestamp
        /\ handler.printed[1].client
        /\ RequestLogged(handler.printed[1])

\* C7 as amended: every answered request leaves on standard output one line
\* with a timestamp, the request line, the status and "-" for the size; when
\* the answer is an error response (400 and above) one more line, with the
\* timestamp, the status code and the message, precedes it.  No line carries
\* the client address, and a connection that sends an empty request line is
\* not answered and leaves no line.
C7_RequestLineAfterErrorLine ==
    Handled =>
        LET n == Len(handler.printed)
        IN  /\ (handler.code = 0) = (request.nwords = 0 /\ ~ request.tooLong)
            /\ handler.code = 0 => n = 0
            /\ (handler.code # 0 /\ handler.code < 400) => n = 1
            /\ handler.code >= 400 =>
                  /\ n = 2
                  /\ handler.printed[1].message.kind = "error"
                  /\ handler.printed[1].message.code = handler.code
            /\ handler.code # 0 => RequestLogged(handler.printed[n])
            /\ \A i \in 1..n :
                  /\ handler.printed[i].stream = "stdout"
                  /\ handler.printed[i].timestamp
                  /\ ~ handler.printed[i].client

C7_Witness ==
    /\ Handled
    /\ handler.code = 404
    /\ Len(handler.printed) = 2
    /\ handler.printed[1].message.kind = "error"
    /\ RequestLogged(handler.printed[2])

(***************************************************************************)
(* C8.  A bind that fails.                                                 *)
(***************************************************************************)
\* C8: when the bind raises, the process has exited with a non-zero status
\* after that one bind call; it has not listened, printed the banner or
\* accepted a request.  A bind of an address that is not free does raise.
C8_BindFailureIsFatal ==
    /\ bindError # "" =>
          /\ pc = "exited"
          /\ exitStatus \notin {-1, 0}
          /\ binds = 1
          /\ sock # "listening"
          /\ server_address = <<"", 0>>
          /\ BannerLine \notin Range(out)
          /\ request = NoRequest
          /\ ~ Handled
    /\ (binds >= 1 /\ ~ portFree) => bindError # ""

C8_Witness ==
    /\ bindError = "OSError"
    /\ port = 8081
    /\ pc = "exited"
    /\ exitStatus = 1

(***************************************************************************)
(* C9.  The listening port.                                                *)
(***************************************************************************)
UsablePortArg == IntegerArg /\ int_value(argv[1]) \in 1..65535

\* C9 as stated: a listening port is in 1..65535, and is 8080 or the value of
\* the argument; every argument that is not a usable port, the integers
\* outside 1..65535 included, gets the warning and port 8080, and is not fatal.
C9_UnusableArgFallsBack ==
    /\ sock = "listening" =>
          /\ server_address[2] \in 1..65535
          /\ server_address[2] = 8080 \/ (UsablePortArg /\ server_address[2] = int_value(argv[1]))
    /\ (HasArg /\ ~ UsablePortArg /\ Parsed) =>
          /\ port = 8080
          /\ Warned
          /\ bindError # "OverflowError"

\* C9 as amended: a listening port is in 1..65535: 8080 when there is no
\* argument or the argument is not an integer (then with the warning), the
\* argument's value when it is an integer in 1..65535, and a port the host
\* assigns when it is the integer 0.  An integer argument gets no warning and
\* is used as it is; outside 0..65535 the bind raises OverflowError and the
\* process exits with status 1 without having listened.
C9_IntegerArgUsedAsIs ==
    /\ sock = "listening" =>
          /\ server_address[2] \in 1..65535
          /\ \/ ~ IntegerArg /\ server_address[2] = 8080
             \/ UsablePortArg /\ server_address[2] = int_value(argv[1])
             \/ IntegerArg /\ int_value(argv[1]) = 0 /\ server_address[2] \in EphemeralPorts
    /\ (NonIntegerArg /\ Parsed) => (port = 8080 /\ Warned)
    /\ (IntegerArg /\ Parsed) => (port = int_value(argv[1]) /\ ~ Warned)
    /\ (IntegerArg /\ int_value(argv[1]) \notin 0..65535 /\ binds >= 1) =>
          /\ bindError = "OverflowError"
          /\ pc = "exited"
          /\ exitStatus = 1
          /\ sock # "listening"

C9_Witness ==
    /\ argv = << <<"7", "0", "0", "0", "0">> >>
    /\ port = 70000
    /\ bindError = "OverflowError"
    /\ exitStatus = 1

(***************************************************************************)
(* C10.  Requests do not change the server.                                *)
(***************************************************************************)
\* C10: the handling of a request, whatever its response, ends back in the
\* accept loop with the socket listening (unless the interrupt arrives); only
\* the interrupt makes a listening socket stop listening; and every request
\* is answered as a handler built from scratch in the serving root answers
\* it, whatever was requested before.
C10_ErrorsLeaveServerListening ==
    /\ [][(pc = "handling" /\ ~ interrupted') =>
              (pc' = "loop" /\ sock' = "listening" /\ ~ shutdown_request')]_vars
    /\ [][(sock = "listening" /\ sock' # "listening") => (interrupted' /\ pc' # "loop")]_vars
    /\ [](Handled => handler = handle(NewHandler("scriptdir"), request))
    /\ [](pc = "loop" => (sock = "listening" /\ ~ shutdown_request))

C10_Witness ==
    /\ errorServed
    /\ pc = "loop"
    /\ Handled
    /\ request.command = "GET"
    /\ handler.wfile.status = 200

=============================================================================
